---- MODULE Spec2Model ----
(***************************************************************************)
(* Certificate-based offline ledger reconciliation (ble-temp-server).      *)
(*                                                                         *)
(* The store is the two supabase tables `users` and `transactions`, keyed  *)
(* by id.  Every request handler is a sequence of steps; one step is one   *)
(* awaited store call together with the synchronous code that follows it   *)
(* up to the next await, which is the granularity at which the Node event  *)
(* loop interleaves concurrent requests.                                   *)
(*                                                                         *)
(* Two /sync handlers exist in the sources: the "change" handler           *)
(* (src/unnamed/part_000) and the "refund" handler                         *)
(* (src/src/routes/transactionRoutes.ts).  Both are modelled; the field    *)
(* `variant` of a request says which one serves it.                        *)
(***************************************************************************)
EXTENDS Integers, Sequences, FiniteSets, TLC

(***************************************************************************)
(* Bounds of the model.                                                    *)
(***************************************************************************)
MaxBalance == 3      \* no request is admitted that could push a balance past it
MaxBatch == 2        \* longest transactions list of a sync request
MaxIssued == 2       \* certificates the clients hold at one time

(***************************************************************************)
(* JavaScript values.  A request field that the code uses both as a number *)
(* and as text (tip_wallet_balance) keeps its type: `n` is its numeric     *)
(* value (ToNumber), `s` its text when it is a string.                     *)
(***************************************************************************)
Num(n) == [t |-> "number", n |-> n, s |-> ""]
NumStr(n) == [t |-> "string", n |-> n, s |-> ToString(n)]
ToStr(v) == IF v.t = "number" THEN ToString(v.n) ELSE v.s
ToNumber(v) == v.n

\* Array.prototype.join('|') over the six certificate fields
join(c) ==
    c.user_id \o "|" \o c.device_id \o "|" \o ToStr(c.tip_wallet_balance)
      \o "|" \o c.timestamp \o "|" \o c.nonce \o "|" \o c.expiration

\* Date.prototype.toISOString of an instant (hours since the epoch)
toISOString(t) == "T" \o ToString(t)

(***************************************************************************)
(* CryptoService.  An Ed25519 signature is determined by the message and   *)
(* the signing key; `key` is "server" for the service's key pair, "other"  *)
(* for a well-formed signature made with any other key, and "malformed"    *)
(* for a value that is not the base64 of 64 bytes.                         *)
(***************************************************************************)
NoSignature == [msg |-> "", key |-> "malformed"]
getPublicKey == "server"

sign(message) == [msg |-> message, key |-> "server"]

\* "true" | "false" | "throw": decodeBase64 and nacl.sign.detached.verify
\* throw on a signature that is not well-formed
verify(message, signature, publicKey) ==
    IF signature.key = "malformed" THEN "throw"
    ELSE IF signature.msg = message /\ signature.key = publicKey THEN "true"
    ELSE "false"

(***************************************************************************)
(* Certificates.  A certificate is a value that exists only in transit.    *)
(***************************************************************************)
IssueTtl == 24          \* hours: 24 * 60 * 60 * 1000 ms
ChangeTtl == 24 * 30    \* hours: 1000 * 60 * 60 * 24 * 30 ms

\* `certificate` absent from a request body
NoCertificate ==
    [user_id |-> "", device_id |-> "", tip_wallet_balance |-> Num(0),
     timestamp |-> "", nonce |-> "", expiration |-> "",
     signature |-> NoSignature]

\* POST /certificate: the certificate object and its signature
IssueCert(user_id, device_id, amount, t, nonce) ==
    LET c == [user_id |-> user_id, device_id |-> device_id,
              tip_wallet_balance |-> Num(amount),
              timestamp |-> toISOString(t), nonce |-> nonce,
              expiration |-> toISOString(t + IssueTtl),
              signature |-> NoSignature]
    IN [c EXCEPT !.signature = sign(join(c))]

\* POST /sync (change handler): the certificate for the unspent amount
ChangeCert(certificate, unspent, t, nonce) ==
    LET c == [user_id |-> certificate.user_id,
              device_id |-> certificate.device_id,
              tip_wallet_balance |-> Num(unspent),
              timestamp |-> toISOString(t), nonce |-> nonce,
              expiration |-> toISOString(t + ChangeTtl),
              signature |-> NoSignature]
    IN [c EXCEPT !.signature = sign(join(c))]

(***************************************************************************)
(* The store: supabase tables keyed by id.  A table is a function from the *)
(* ids of its rows to the rows.                                            *)
(***************************************************************************)
EmptyTable == [k \in {} |-> 0]
Pending == "PENDING_INITIALIZATION"

\* .from(table).select().eq('id', id).single() / .maybeSingle()
Select(table, id) ==
    IF id \in DOMAIN table
    THEN [found |-> TRUE, balance |-> table[id].balance]
    ELSE [found |-> FALSE, balance |-> 0]

\* .from('users').update({ balance }).eq('id', id): no row, no effect
UpdateBalance(table, id, balance) ==
    IF id \in DOMAIN table
    THEN [table EXCEPT ![id].balance = balance]
    ELSE table

\* (a table without a primary key constraint)
InsertConflictNever(table, id) == FALSE

\* .from(table).insert(row): the primary key refuses a second row
InsertConflict(table, id) == id \in DOMAIN table
Insert(table, id, row) ==
    IF InsertConflict(table, id) THEN table ELSE table @@ (id :> row)

RECURSIVE SumSeq(_)
SumSeq(q) == IF q = <<>> THEN 0 ELSE Head(q) + SumSeq(Tail(q))

RECURSIVE SumBalances(_, _)
SumBalances(table, ids) ==
    IF ids = {} THEN 0
    ELSE LET id == CHOOSE x \in ids : TRUE
         IN table[id].balance + SumBalances(table, ids \ {id})

TotalBalance(table) == SumBalances(table, DOMAIN table)

(***************************************************************************)
(* State.                                                                  *)
(*   users, txs  the two tables                                            *)
(*   req         the request each connection slot is serving: its body,    *)
(*               the handler's local variables, its position (pc) and,     *)
(*               once pc = "done", its response                            *)
(*   issued      the certificates the clients hold (every certificate a    *)
(*               response has carried and a client has not discarded)      *)
(***************************************************************************)
VARIABLES users, txs, req, issued
vars == <<users, txs, req, issued>>

Slots == {1, 2}

NoFirst == [retry |-> FALSE, processed |-> <<>>, total_spent |-> 0,
            change |-> 0, users |-> EmptyTable]

Idle ==
    [kind |-> "idle", variant |-> "", pc |-> "idle",
     \* request body
     certificate |-> NoCertificate, txIsArray |-> TRUE, transactions |-> <<>>,
     user_id |-> "", device_id |-> "", amountGiven |-> FALSE, amount |-> 0,
     public_key |-> "",
     \* locals of the handler
     i |-> 0, results |-> <<>>, totalSpent |-> 0, senderId |-> "",
     receiverId |-> "", fetched |-> [found |-> FALSE, balance |-> 0],
     newBalance |-> 0, unspent |-> 0, newCertificate |-> NoCertificate,
     \* response
     status |-> 0, error |-> "", balance |-> 0,
     \* history: the tables when the request arrived, the rows it stored,
     \* and, for a resubmitted sync, the outcome of the first submission
     users0 |-> EmptyTable, txs0 |-> EmptyTable, stored |-> {}, first |-> NoFirst,
     \* history: the amount that earlier requests presenting the same
     \* certificate credited, and the store operations of this request that
     \* failed
     prior |-> 0, faults |-> {}]

Init ==
    /\ users = EmptyTable
    /\ txs = EmptyTable
    /\ req = [s \in Slots |-> Idle]
    /\ issued = {}

InFlight(s) == req[s].pc \notin {"idle", "done"}

\* res.status(code).json({ error }) / res.json(...)
Respond(r, status, error) == [r EXCEPT !.pc = "done", !.status = status, !.error = error]

(***************************************************************************)
(* POST /sync.  `v` is the handler: "change" or "refund".                  *)
(***************************************************************************)
\* the response of a sync whose try block threw
SyncFailed(r) == Respond(r, 500, "Sync failed")

\* (a change handler that issues a certificate for a remainder of zero)
SettleChangeZero(r, t, nonce) ==
    IF r.certificate # NoCertificate
    THEN LET unspent == ToNumber(r.certificate.tip_wallet_balance) - r.totalSpent
         IN [r EXCEPT !.unspent = unspent,
                      !.newCertificate =
                          IF unspent >= 0
                          THEN ChangeCert(r.certificate, unspent, t, nonce)
                          ELSE NoCertificate,
                      !.pc = "final"]
    ELSE [r EXCEPT !.pc = "final"]

\* step 3 of the change handler, reached when the loop is over: the
\* certificate for the unspent amount, built without any store access
SettleChange(r, t, nonce) ==
    IF r.certificate # NoCertificate
    THEN LET unspent == ToNumber(r.certificate.tip_wallet_balance) - r.totalSpent
         IN [r EXCEPT !.unspent = unspent,
                      !.newCertificate =
                          IF unspent > 0
                          THEN ChangeCert(r.certificate, unspent, t, nonce)
                          ELSE NoCertificate,
                      !.pc = "final"]
    ELSE [r EXCEPT !.pc = "final"]

\* step 3 of the refund handler: the unspent amount goes back to the online
\* balance of certificate.user_id, by a fetch and then an update
SettleRefund(r) ==
    IF r.certificate # NoCertificate
    THEN LET unspent == ToNumber(r.certificate.tip_wallet_balance) - r.totalSpent
         IN [r EXCEPT !.unspent = unspent,
                      !.pc = IF unspent > 0 THEN "refundFetch" ELSE "final"]
    ELSE [r EXCEPT !.pc = "final"]

\* the top of the for loop at element r.i, or the code after the loop
EnterIteration(r, t, nonce) ==
    IF r.i > Len(r.transactions)
    THEN IF r.variant = "change" THEN SettleChange(r, t, nonce) ELSE SettleRefund(r)
    ELSE LET tx == r.transactions[r.i]
         IN IF r.variant = "change"
            THEN \* counted and listed before the transaction is looked at
                 [r EXCEPT !.totalSpent = @ + tx.amount,
                           !.results = Append(@, tx.transaction_id),
                           !.pc = "check"]
            ELSE [r EXCEPT !.pc = "check"]

\* `continue`, or the end of the loop body
Continue(r, t, nonce) == EnterIteration([r EXCEPT !.i = @ + 1], t, nonce)

\* the end of the loop body of the refund handler counts and lists the
\* transaction; the change handler has done so at the top
EndBody(r, t, nonce) ==
    LET tx == r.transactions[r.i]
    IN IF r.variant = "refund"
       THEN Continue([r EXCEPT !.totalSpent = @ + tx.amount,
                               !.results = Append(@, tx.transaction_id)], t, nonce)
       ELSE Continue(r, t, nonce)

\* (an attribution that takes the certificate's user whatever the device)
SenderIdOfHolder(certificate, tx) ==
    IF tx.sender_user_id # "" THEN tx.sender_user_id
    ELSE IF certificate # NoCertificate THEN certificate.user_id
    ELSE tx.sender_device_id

\* let senderId = tx.sender_user_id; ... if (!senderId) senderId = tx.sender_device_id
SenderId(certificate, tx) ==
    IF tx.sender_user_id # "" THEN tx.sender_user_id
    ELSE IF certificate # NoCertificate /\ certificate.device_id = tx.sender_device_id
         THEN certificate.user_id
    ELSE tx.sender_device_id

\* tx.receiver_user_id || tx.receiver_device_id || 'unknown'
ReceiverId(tx) ==
    IF tx.receiver_user_id # "" THEN tx.receiver_user_id
    ELSE IF tx.receiver_device_id # "" THEN tx.receiver_device_id
    ELSE "unknown"

\* the row of the transactions table
TxRow(r, tx) ==
    [id |-> tx.transaction_id, sender_id |-> r.senderId,
     receiver_id |-> r.receiverId, amount |-> tx.amount,
     signature |-> tx.sender_signature, payload |-> tx]

\* the validation of the request and of its certificate, up to the first await
SyncValidate(r, t, nonce) ==
    IF ~r.txIsArray THEN Respond(r, 400, "Missing transactions")
    ELSE IF r.certificate = NoCertificate /\ r.user_id = ""
         THEN Respond(r, 400, "Missing user identification (certificate or user_id)")
    ELSE IF r.certificate = NoCertificate
         THEN EnterIteration([r EXCEPT !.i = 1], t, nonce)
    ELSE LET isCertValid == verify(join(r.certificate), r.certificate.signature,
                                   getPublicKey)
         IN IF isCertValid = "throw" THEN SyncFailed(r)
            ELSE IF isCertValid = "false" THEN Respond(r, 401, "Invalid certificate")
            ELSE EnterIteration([r EXCEPT !.i = 1], t, nonce)

\* the request as it arrives
SyncRequest(v, body, first) ==
    [Idle EXCEPT !.kind = "sync", !.variant = v,
                 !.certificate = body.certificate,
                 !.txIsArray = body.txIsArray,
                 !.transactions = body.transactions,
                 !.user_id = body.user_id,
                 !.users0 = users, !.txs0 = txs, !.first = first]

Times == {0}
Nonces == {"n1"}

\* (a handler that looks at the certificate only after it has stored the
\* first transaction of the batch)
SyncStartVerifyLate(s, v, body) ==
    /\ req[s].pc = "idle"
    /\ \E t \in Times, nonce \in Nonces :
         LET r == SyncValidate(SyncRequest(v, body, NoFirst), t, nonce)
             q == body.transactions
         IN /\ req' = [req EXCEPT ![s] = r]
            /\ txs' = IF r.status = 401 /\ Len(q) > 0
                      THEN Insert(txs, q[1].transaction_id, TxRow(r, q[1]))
                      ELSE txs
    /\ UNCHANGED <<users, issued>>

SyncStart(s, v, body) ==
    /\ req[s].pc = "idle"
    /\ \E t \in Times, nonce \in Nonces :
         req' = [req EXCEPT ![s] = SyncValidate(SyncRequest(v, body, NoFirst), t, nonce)]
    /\ UNCHANGED <<users, txs, issued>>

\* (a handler that stores a transaction without asking for its signature)
MissingSignatureNever(tx) == FALSE

\* if (!tx.sender_signature)
MissingSignature(tx) == tx.sender_signature = ""

\* const { data: existing } = await ...from('transactions').select('id')...
SyncCheck(s) ==
    /\ req[s].kind = "sync" /\ req[s].pc = "check"
    /\ LET r == req[s]
           tx == r.transactions[r.i]
       IN \E t \in Times, nonce \in Nonces :
            req' = [req EXCEPT ![s] =
              IF tx.transaction_id \in DOMAIN txs
              THEN Continue(r, t, nonce)
              ELSE LET r1 == [r EXCEPT !.senderId = SenderId(r.certificate, tx)]
                   IN IF MissingSignature(tx)
                      THEN IF r.variant = "refund"
                           THEN \* still marked as processed so the client clears it
                                Continue([r1 EXCEPT !.results =
                                             Append(@, tx.transaction_id)], t, nonce)
                           ELSE Continue(r1, t, nonce)
                      ELSE [r1 EXCEPT !.receiverId = ReceiverId(tx), !.pc = "insert"]]
    /\ UNCHANGED <<users, txs, issued>>

\* await ...from('transactions').insert({...}); if (insertTxError) throw
SyncInsert(s) ==
    /\ req[s].kind = "sync" /\ req[s].pc = "insert"
    /\ LET r == req[s]
           tx == r.transactions[r.i]
       IN IF InsertConflict(txs, tx.transaction_id)
          THEN /\ req' = [req EXCEPT ![s] = SyncFailed(r)]
               /\ txs' = txs
          ELSE /\ txs' = Insert(txs, tx.transaction_id, TxRow(r, tx))
               /\ \E t \in Times, nonce \in Nonces :
                    req' = [req EXCEPT ![s] =
                      LET r1 == [r EXCEPT !.stored = @ \cup {tx.transaction_id}]
                      IN IF r.receiverId # "unknown"
                         THEN [r1 EXCEPT !.pc = "fetchReceiver"]
                         ELSE EndBody(r1, t, nonce)]
    /\ UNCHANGED <<users, issued>>

\* const { data: receiver } = await ...from('users').select('balance')...
SyncFetchReceiver(s) ==
    /\ req[s].kind = "sync" /\ req[s].pc = "fetchReceiver"
    /\ req' = [req EXCEPT ![s].fetched = Select(users, req[s].receiverId),
                          ![s].pc = "credit"]
    /\ UNCHANGED <<users, txs, issued>>

\* (a credit that overwrites the receiver's balance with the amount)
CreditReplace(table, r, tx) ==
    IF r.fetched.found
    THEN UpdateBalance(table, r.receiverId, tx.amount)
    ELSE Insert(table, r.receiverId,
                [id |-> r.receiverId, balance |-> tx.amount, public_key |-> Pending])

\* if (receiver) update({ balance: newBalance }) else insert({...}); the
\* result of neither call is looked at
Credit(table, r, tx) ==
    IF r.fetched.found
    THEN UpdateBalance(table, r.receiverId, r.fetched.balance + tx.amount)
    ELSE Insert(table, r.receiverId,
                [id |-> r.receiverId, balance |-> tx.amount, public_key |-> Pending])

SyncCredit(s) ==
    /\ req[s].kind = "sync" /\ req[s].pc = "credit"
    /\ LET r == req[s]
           tx == r.transactions[r.i]
       IN /\ users' = Credit(users, r, tx)
          /\ \E t \in Times, nonce \in Nonces :
               req' = [req EXCEPT ![s] = EndBody(r, t, nonce)]
    /\ UNCHANGED <<txs, issued>>

\* refund handler: const { data: user, error: fetchUserError } = await ...;
\* if (fetchUserError) throw fetchUserError
SyncRefundFetch(s) ==
    /\ req[s].kind = "sync" /\ req[s].pc = "refundFetch"
    /\ LET r == req[s]
           user == Select(users, r.certificate.user_id)
       IN req' = [req EXCEPT ![s] =
            IF ~user.found THEN SyncFailed(r)
            ELSE [r EXCEPT !.fetched = user,
                           !.newBalance = user.balance + r.unspent,
                           !.pc = "refundUpdate"]]
    /\ UNCHANGED <<users, txs, issued>>

\* refund handler: await ...update({ balance: newBalance }).eq('id', certificate.user_id)
SyncRefundUpdate(s) ==
    /\ req[s].kind = "sync" /\ req[s].pc = "refundUpdate"
    /\ users' = UpdateBalance(users, req[s].certificate.user_id, req[s].newBalance)
    /\ req' = [req EXCEPT ![s].pc = "final"]
    /\ UNCHANGED <<txs, issued>>

\* certificate ? certificate.user_id : user_id
SyncingUserId(r) ==
    IF r.certificate # NoCertificate THEN r.certificate.user_id ELSE r.user_id

\* const { data: finalUser } = await ...; res.json({ status: 'ok', ... })
SyncFinal(s) ==
    /\ req[s].kind = "sync" /\ req[s].pc = "final"
    /\ LET r == req[s]
           finalUser == Select(users, SyncingUserId(r))
       IN /\ req' = [req EXCEPT ![s] =
                 [Respond(r, 200, "") EXCEPT
                     !.balance = IF finalUser.found THEN finalUser.balance ELSE 0]]
          /\ issued' = IF r.newCertificate # NoCertificate
                       THEN issued \cup {r.newCertificate}
                       ELSE issued
    /\ UNCHANGED <<users, txs>>

\* the client submits again the batch of a sync that succeeded
SyncRetry(s) ==
    /\ req[s].kind = "sync" /\ req[s].pc = "done" /\ req[s].status = 200
    /\ ~req[s].first.retry
    /\ LET r == req[s]
           first == [retry |-> TRUE, processed |-> r.results,
                     total_spent |-> r.totalSpent,
                     change |-> ToNumber(r.newCertificate.tip_wallet_balance),
                     users |-> users]
           again == SyncRequest(r.variant, r, first)
       IN \E t \in Times, nonce \in Nonces :
            req' = [req EXCEPT ![s] = SyncValidate(again, t, nonce)]
    /\ UNCHANGED <<users, txs, issued>>

(***************************************************************************)
(* POST /sync when a store operation fails (the storage is unreachable, or *)
(* refuses the statement): the operation has no effect on the tables and   *)
(* returns { data: null, error }.                                          *)
(***************************************************************************)
\* the existence check fails: if (checkError) throw checkError
SyncCheckFails(s) ==
    /\ req[s].kind = "sync" /\ req[s].pc = "check"
    /\ req' = [req EXCEPT ![s] =
                 SyncFailed([req[s] EXCEPT !.faults = @ \cup {"check"}])]
    /\ UNCHANGED <<users, txs, issued>>

\* the insert of the transaction fails: if (insertTxError) throw insertTxError
SyncInsertFails(s) ==
    /\ req[s].kind = "sync" /\ req[s].pc = "insert"
    /\ req' = [req EXCEPT ![s] =
                 SyncFailed([req[s] EXCEPT !.faults = @ \cup {"insert"}])]
    /\ UNCHANGED <<users, txs, issued>>

\* the fetch of the receiver fails with a code other than PGRST116:
\* throw fetchReceiverError
SyncFetchReceiverFails(s) ==
    /\ req[s].kind = "sync" /\ req[s].pc = "fetchReceiver"
    /\ req' = [req EXCEPT ![s] =
                 SyncFailed([req[s] EXCEPT !.faults = @ \cup {"fetchReceiver"}])]
    /\ UNCHANGED <<users, txs, issued>>

\* the update or the insert of the receiver's row fails: the call is
\* awaited and its result is dropped, so the loop goes on
SyncCreditFails(s) ==
    /\ req[s].kind = "sync" /\ req[s].pc = "credit"
    /\ LET r == [req[s] EXCEPT
                    !.faults = @ \cup {IF req[s].fetched.found
                                       THEN "updateReceiver" ELSE "insertReceiver"}]
       IN \E t \in Times, nonce \in Nonces :
            req' = [req EXCEPT ![s] = EndBody(r, t, nonce)]
    /\ UNCHANGED <<users, txs, issued>>

\* the client submits again the batch of a sync that was answered with 500;
\* the history of the request goes on from the first submission
SyncResubmit(s) ==
    /\ req[s].kind = "sync" /\ req[s].pc = "done" /\ req[s].status = 500
    /\ ~req[s].first.retry
    /\ LET r == req[s]
           first == [NoFirst EXCEPT !.retry = TRUE, !.users = r.users0]
           again == [SyncRequest(r.variant, r, first) EXCEPT
                        !.users0 = r.users0, !.txs0 = r.txs0,
                        !.stored = r.stored]
       IN \E t \in Times, nonce \in Nonces :
            req' = [req EXCEPT ![s] = SyncValidate(again, t, nonce)]
    /\ UNCHANGED <<users, txs, issued>>

\* the amount the rows `ids` of the transactions table credited
RECURSIVE Credited(_)
Credited(ids) ==
    IF ids = {} THEN 0
    ELSE LET id == CHOOSE x \in ids : TRUE
         IN (IF txs[id].receiver_id # "unknown" THEN txs[id].amount ELSE 0)
            + Credited(ids \ {id})

\* the client presents the certificate of a sync that succeeded once more,
\* to the same handler, with another batch
SyncReuse(s, q) ==
    /\ req[s].kind = "sync" /\ req[s].pc = "done" /\ req[s].status = 200
    /\ req[s].certificate # NoCertificate
    /\ LET r == req[s]
           body == [certificate |-> r.certificate, txIsArray |-> TRUE,
                    transactions |-> q, user_id |-> r.user_id]
           again == [SyncRequest(r.variant, body, NoFirst) EXCEPT
                        !.prior = r.prior + Credited(r.stored)]
       IN \E t \in Times, nonce \in Nonces :
            req' = [req EXCEPT ![s] = SyncValidate(again, t, nonce)]
    /\ UNCHANGED <<users, txs, issued>>

(***************************************************************************)
(* POST /fund                                                              *)
(***************************************************************************)
FundStart(s, user_id, amountGiven, amount) ==
    /\ req[s].pc = "idle"
    /\ LET r == [Idle EXCEPT !.kind = "fund", !.user_id = user_id,
                             !.amountGiven = amountGiven, !.amount = amount,
                             !.users0 = users, !.txs0 = txs]
       IN req' = [req EXCEPT ![s] =
             IF user_id = "" \/ ~amountGiven
             THEN Respond(r, 400, "Missing parameters")
             ELSE [r EXCEPT !.pc = "fundFetch"]]
    /\ UNCHANGED <<users, txs, issued>>

\* let { data: user, error } = await ...select('*').eq('id', user_id).single()
FundFetch(s) ==
    /\ req[s].kind = "fund" /\ req[s].pc = "fundFetch"
    /\ LET r == req[s]
           user == Select(users, r.user_id)
       IN req' = [req EXCEPT ![s] =
            IF ~user.found THEN [r EXCEPT !.fetched = user, !.pc = "fundInsert"]
            ELSE [r EXCEPT !.fetched = user,
                           !.newBalance = user.balance + r.amount,
                           !.pc = "fundUpdate"]]
    /\ UNCHANGED <<users, txs, issued>>

\* insert({ id, public_key: 'PENDING_INITIALIZATION', balance: amount });
\* if (insertError) throw insertError
FundInsert(s) ==
    /\ req[s].kind = "fund" /\ req[s].pc = "fundInsert"
    /\ LET r == req[s]
       IN IF InsertConflict(users, r.user_id)
          THEN /\ users' = users
               /\ req' = [req EXCEPT ![s] = Respond(r, 500, "Failed to fund wallet")]
          ELSE /\ users' = Insert(users, r.user_id,
                                  [id |-> r.user_id, balance |-> r.amount,
                                   public_key |-> Pending])
               /\ req' = [req EXCEPT ![s] =
                            [Respond(r, 200, "") EXCEPT !.balance = r.amount]]
    /\ UNCHANGED <<txs, issued>>

\* update({ balance: newBalance }).eq('id', user_id).select().single()
FundUpdate(s) ==
    /\ req[s].kind = "fund" /\ req[s].pc = "fundUpdate"
    /\ users' = UpdateBalance(users, req[s].user_id, req[s].newBalance)
    /\ req' = [req EXCEPT ![s] =
                 [Respond(req[s], 200, "") EXCEPT !.balance = req[s].newBalance]]
    /\ UNCHANGED <<txs, issued>>

(***************************************************************************)
(* POST /certificate                                                       *)
(***************************************************************************)
CertStart(s, user_id, device_id, amountGiven, amount) ==
    /\ req[s].pc = "idle"
    /\ LET r == [Idle EXCEPT !.kind = "certificate", !.user_id = user_id,
                             !.device_id = device_id,
                             !.amountGiven = amountGiven, !.amount = amount,
                             !.users0 = users, !.txs0 = txs]
       IN req' = [req EXCEPT ![s] =
             IF user_id = "" \/ device_id = "" \/ ~amountGiven
             THEN Respond(r, 400, "Missing parameters")
             ELSE [r EXCEPT !.pc = "certFetch"]]
    /\ UNCHANGED <<users, txs, issued>>

\* (an issuance that refuses a certificate for the whole balance)
CertDecideLe(r, user) ==
    IF ~user.found THEN Respond(r, 404, "User not found")
    ELSE IF user.balance <= r.amount
         THEN Respond(r, 400, "Insufficient balance on server")
    ELSE [r EXCEPT !.fetched = user,
                   !.newBalance = user.balance - r.amount,
                   !.pc = "certUpdate"]

\* the outcome of the fetch: 404, 400, or the debit to write
CertDecide(r, user) ==
    IF ~user.found THEN Respond(r, 404, "User not found")
    ELSE IF user.balance < r.amount
         THEN Respond(r, 400, "Insufficient balance on server")
    ELSE [r EXCEPT !.fetched = user,
                   !.newBalance = user.balance - r.amount,
                   !.pc = "certUpdate"]

CertFetch(s) ==
    /\ req[s].kind = "certificate" /\ req[s].pc = "certFetch"
    /\ req' = [req EXCEPT ![s] = CertDecide(req[s], Select(users, req[s].user_id))]
    /\ UNCHANGED <<users, txs, issued>>

\* update({ balance: newBalance }); then the certificate is built, signed and sent
CertUpdate(s) ==
    /\ req[s].kind = "certificate" /\ req[s].pc = "certUpdate"
    /\ users' = UpdateBalance(users, req[s].user_id, req[s].newBalance)
    /\ \E t \in Times, nonce \in Nonces :
         LET c == IssueCert(req[s].user_id, req[s].device_id, req[s].amount, t, nonce)
         IN /\ req' = [req EXCEPT ![s] =
                         [Respond(req[s], 200, "") EXCEPT !.newCertificate = c]]
            /\ issued' = issued \cup {c}
    /\ UNCHANGED txs

(***************************************************************************)
(* POST /initialize                                                        *)
(***************************************************************************)
InitializeStart(s, user_id, public_key) ==
    /\ req[s].pc = "idle"
    /\ LET r == [Idle EXCEPT !.kind = "initialize", !.user_id = user_id,
                             !.public_key = public_key,
                             !.users0 = users, !.txs0 = txs]
       IN req' = [req EXCEPT ![s] =
             IF user_id = "" \/ public_key = ""
             THEN Respond(r, 400, "Missing parameters")
             ELSE [r EXCEPT !.pc = "initUpsert"]]
    /\ UNCHANGED <<users, txs, issued>>

\* .from('users').upsert({ id, public_key }): the row's public key is
\* replaced; a new row takes the default of the balance column
Upsert(table, id, public_key) ==
    IF id \in DOMAIN table
    THEN [table EXCEPT ![id].public_key = public_key]
    ELSE table @@ (id :> [id |-> id, balance |-> 0, public_key |-> public_key])

InitializeUpsert(s) ==
    /\ req[s].kind = "initialize" /\ req[s].pc = "initUpsert"
    /\ users' = Upsert(users, req[s].user_id, req[s].public_key)
    /\ req' = [req EXCEPT ![s] = Respond(req[s], 200, "")]
    /\ UNCHANGED <<txs, issued>>

(***************************************************************************)
(* GET /balance/:userId                                                    *)
(***************************************************************************)
BalanceStart(s, userId) ==
    /\ req[s].pc = "idle"
    /\ req' = [req EXCEPT ![s] =
                 [Idle EXCEPT !.kind = "balance", !.user_id = userId,
                              !.users0 = users, !.txs0 = txs,
                              !.pc = "balanceFetch"]]
    /\ UNCHANGED <<users, txs, issued>>

\* let { data: user, error } = await ...select('*').eq('id', userId).single()
BalanceFetch(s) ==
    /\ req[s].kind = "balance" /\ req[s].pc = "balanceFetch"
    /\ LET r == req[s]
           user == Select(users, r.user_id)
       IN req' = [req EXCEPT ![s] =
            IF user.found
            THEN [Respond(r, 200, "") EXCEPT !.fetched = user, !.balance = user.balance]
            ELSE [r EXCEPT !.fetched = user, !.pc = "balanceInsert"]]
    /\ UNCHANGED <<users, txs, issued>>

\* (a provisioning that opens the account with a balance of one)
NewUserOne(userId) == [id |-> userId, balance |-> 1, public_key |-> Pending]

\* insert({ id: userId, balance: 0, public_key: 'PENDING_INITIALIZATION' })
NewUser(userId) == [id |-> userId, balance |-> 0, public_key |-> Pending]

\* ...insert(...).select().single(); if (insertError) throw insertError
BalanceInsert(s) ==
    /\ req[s].kind = "balance" /\ req[s].pc = "balanceInsert"
    /\ LET r == req[s]
       IN IF InsertConflict(users, r.user_id)
          THEN /\ users' = users
               /\ req' = [req EXCEPT ![s] = Respond(r, 500, "Failed to fetch balance")]
          ELSE /\ users' = Insert(users, r.user_id, NewUser(r.user_id))
               /\ req' = [req EXCEPT ![s] =
                            [Respond(r, 200, "") EXCEPT
                                !.balance = NewUser(r.user_id).balance]]
    /\ UNCHANGED <<txs, issued>>

(***************************************************************************)
(* The clients.                                                            *)
(***************************************************************************)
\* the response has been read; the slot serves the next request
Finish(s) ==
    /\ req[s].pc = "done"
    /\ req' = [req EXCEPT ![s] = Idle]
    /\ UNCHANGED <<users, txs, issued>>

\* a client discards a certificate it holds
Discard(c) ==
    /\ c \in issued
    /\ issued' = issued \ {c}
    /\ UNCHANGED <<users, txs, req>>

(***************************************************************************)
(* Bounding the model: a request is admitted only while the balances and   *)
(* the number of certificates the clients hold stay within the bounds.     *)
(***************************************************************************)
\* what a request can add to the balances at most
Increase(r) ==
    IF r.kind = "fund" THEN r.amount
    ELSE IF r.kind = "sync"
         THEN SumSeq([k \in 1..Len(r.transactions) |-> r.transactions[k].amount])
              + (IF r.variant = "refund" /\ r.certificate # NoCertificate
                 THEN ToNumber(r.certificate.tip_wallet_balance) ELSE 0)
    ELSE 0

RECURSIVE SumIncrease(_)
SumIncrease(S) ==
    IF S = {} THEN 0
    ELSE LET s == CHOOSE x \in S : TRUE
         IN Increase(req[s]) + SumIncrease(S \ {s})

\* a request whose response may carry a new certificate
MayIssue(r) ==
    \/ r.kind = "certificate"
    \/ r.kind = "sync" /\ r.variant = "change" /\ r.certificate # NoCertificate

Admit(r) ==
    /\ TotalBalance(users) + SumIncrease({s \in Slots : InFlight(s)}) + Increase(r)
         <= MaxBalance
    /\ MayIssue(r) =>
         Cardinality(issued) + Cardinality({s \in Slots : InFlight(s) /\ MayIssue(req[s])})
           < MaxIssued


AdmitSync(v, body) == Admit(SyncRequest(v, body, NoFirst))
AdmitFund(amount) == Admit([Idle EXCEPT !.kind = "fund", !.amount = amount])
AdmitCert == Admit([Idle EXCEPT !.kind = "certificate"])

(***************************************************************************)
(* Inputs.                                                                 *)
(***************************************************************************)
UserIds == {"u1", "u2"}
DeviceIds == {"d1", "d2"}
TxIds == {"t1", "t2"}
Amounts == {1, 2}
Handlers == {"change", "refund"}

\* the certificates a client can make of one it holds by changing one field
\* or the signature
Tampered(c) ==
    {[c EXCEPT !.user_id = u] : u \in UserIds \ {c.user_id}}
    \cup {[c EXCEPT !.device_id = d] : d \in DeviceIds \ {c.device_id}}
    \cup {[c EXCEPT !.tip_wallet_balance = b] :
            b \in ({Num(n) : n \in 0..MaxBalance}
                   \cup {NumStr(ToNumber(c.tip_wallet_balance))})
                  \ {c.tip_wallet_balance}}
    \cup {[c EXCEPT !.timestamp = toISOString(1)]}
    \cup {[c EXCEPT !.nonce = "n2"]}
    \cup {[c EXCEPT !.expiration = toISOString(0)]}
    \cup {[c EXCEPT !.signature = g] :
            g \in ({NoSignature, [msg |-> join(c), key |-> "other"]}
                   \cup {h.signature : h \in issued}) \ {c.signature}}

AllTampered == UNION {Tampered(c) : c \in issued} \ issued

Tx(id, su, sd, ru, rd, a, g) ==
    [transaction_id |-> id, sender_user_id |-> su, sender_device_id |-> sd,
     receiver_user_id |-> ru, receiver_device_id |-> rd,
     amount |-> a, sender_signature |-> g]

Batches(pool, n) == UNION {[1..k -> pool] : k \in 0..n}

Body(c, isArray, q, u) ==
    [certificate |-> c, txIsArray |-> isArray, transactions |-> q, user_id |-> u]

\* the bodies of the sync requests: with a certificate the client holds, with
\* a user id, with a certificate that was tampered with, and malformed
SyncBodies(pool, n) ==
    {Body(c, TRUE, q, "") : c \in issued, q \in Batches(pool, n)}
    \cup {Body(NoCertificate, TRUE, q, u) : q \in Batches(pool, n), u \in {"", "u1"}}
    \cup {Body(c, TRUE, q, "") : c \in AllTampered, q \in Batches(pool, 1)}
    \cup {Body(c, FALSE, <<>>, u) :
            c \in {NoCertificate} \cup issued \cup AllTampered, u \in {"", "u1"}}

(***************************************************************************)
(* Spec: the requests are served one at a time.                            *)
(***************************************************************************)
TxPool ==
    {Tx(id, "", "d1", "u2", "d2", a, g) :
        id \in TxIds, a \in Amounts, g \in {"", "sg"}}

Next ==
    \/ /\ req[1].pc = "idle"
       /\ \E v \in Handlers, body \in SyncBodies(TxPool, MaxBatch) :
            AdmitSync(v, body) /\ SyncStart(1, v, body)
    \/ Admit(SyncRequest(req[1].variant, req[1], NoFirst)) /\ SyncRetry(1)
    \/ SyncCheck(1)
    \/ SyncInsert(1)
    \/ SyncFetchReceiver(1)
    \/ SyncCredit(1)
    \/ SyncRefundFetch(1)
    \/ SyncRefundUpdate(1)
    \/ SyncFinal(1)
    \/ /\ req[1].pc = "idle"
       /\ \E u \in {"u1"}, a \in Amounts : AdmitFund(a) /\ FundStart(1, u, TRUE, a)
    \/ FundFetch(1)
    \/ FundInsert(1)
    \/ FundUpdate(1)
    \/ /\ req[1].pc = "idle"
       /\ \E u \in {"u1"}, d \in {"d1"}, a \in Amounts :
            AdmitCert /\ CertStart(1, u, d, TRUE, a)
    \/ CertFetch(1)
    \/ CertUpdate(1)
    \/ Finish(1)
    \/ \E c \in issued : Discard(c)

Spec == Init /\ [][Next]_vars

(***************************************************************************)
(* SpecAttr: the requests are served one at a time; the transactions vary  *)
(* in the sender they declare and the certificates in their device.        *)
(***************************************************************************)
AttrPool ==
    {Tx(id, su, sd, "u2", "", 1, "sg") :
        id \in {"t1"}, su \in {"", "u1", "u2"}, sd \in DeviceIds}

AttrBodies ==
    {Body(c, TRUE, q, "") : c \in issued, q \in Batches(AttrPool, 1)}
    \cup {Body(NoCertificate, TRUE, q, "u1") : q \in Batches(AttrPool, 1)}

NextAttr ==
    \/ /\ req[1].pc = "idle"
       /\ \E v \in Handlers, body \in AttrBodies :
            AdmitSync(v, body) /\ SyncStart(1, v, body)
    \/ SyncCheck(1)
    \/ SyncInsert(1)
    \/ SyncFetchReceiver(1)
    \/ SyncCredit(1)
    \/ SyncRefundFetch(1)
    \/ SyncRefundUpdate(1)
    \/ SyncFinal(1)
    \/ /\ req[1].pc = "idle"
       /\ \E u \in {"u1"}, a \in Amounts : AdmitFund(a) /\ FundStart(1, u, TRUE, a)
    \/ FundFetch(1)
    \/ FundInsert(1)
    \/ FundUpdate(1)
    \/ /\ req[1].pc = "idle"
       /\ \E u \in {"u1"}, d \in DeviceIds, a \in Amounts :
            AdmitCert /\ CertStart(1, u, d, TRUE, a)
    \/ CertFetch(1)
    \/ CertUpdate(1)
    \/ Finish(1)
    \/ \E c \in issued : Discard(c)

SpecAttr == Init /\ [][NextAttr]_vars

(***************************************************************************)
(* SpecWallet: the requests are served one at a time; accounts are         *)
(* registered and queried as well, and a certificate may be presented      *)
(* again with another batch.                                               *)
(***************************************************************************)
WalletPool == {Tx(id, "", "d1", "u2", "", 1, "sg") : id \in TxIds}

WalletBodies ==
    {Body(c, TRUE, q, "") : c \in issued, q \in Batches(WalletPool, 1)}
    \cup {Body(NoCertificate, TRUE, q, "u1") : q \in Batches(WalletPool, 1)}

NextWallet ==
    \/ /\ req[1].pc = "idle"
       /\ \E v \in Handlers, body \in WalletBodies :
            AdmitSync(v, body) /\ SyncStart(1, v, body)
    \/ \E q \in Batches(WalletPool, 1) :
            /\ Admit(SyncRequest(req[1].variant, [req[1] EXCEPT !.transactions = q],
                                 NoFirst))
            /\ SyncReuse(1, q)
    \/ SyncCheck(1)
    \/ SyncInsert(1)
    \/ SyncFetchReceiver(1)
    \/ SyncCredit(1)
    \/ SyncRefundFetch(1)
    \/ SyncRefundUpdate(1)
    \/ SyncFinal(1)
    \/ /\ req[1].pc = "idle"
       /\ \E u \in UserIds, k \in {"", "pk"} : InitializeStart(1, u, k)
    \/ InitializeUpsert(1)
    \/ /\ req[1].pc = "idle"
       /\ \E u \in UserIds : BalanceStart(1, u)
    \/ BalanceFetch(1)
    \/ BalanceInsert(1)
    \/ /\ req[1].pc = "idle"
       /\ \E u \in {"u1"}, a \in {1} : AdmitFund(a) /\ FundStart(1, u, TRUE, a)
    \/ FundFetch(1)
    \/ FundInsert(1)
    \/ FundUpdate(1)
    \/ /\ req[1].pc = "idle"
       /\ \E u \in {"u1"}, d \in {"d1"}, a \in {1} :
            AdmitCert /\ CertStart(1, u, d, TRUE, a)
    \/ CertFetch(1)
    \/ CertUpdate(1)
    \/ Finish(1)
    \/ \E c \in issued : Discard(c)

SpecWallet == Init /\ [][NextWallet]_vars

(***************************************************************************)
(* SpecFault: one sync request, any store operation of whose loop may      *)
(* fail; a request answered with 500 may be submitted once more.  It       *)
(* starts as SpecConc does.                                                *)
(***************************************************************************)
FaultPool == {Tx(id, "", "d1", "u2", "", 1, "sg") : id \in TxIds}

FaultBodies ==
    {Body(c, TRUE, q, "") : c \in issued, q \in Batches(FaultPool, MaxBatch)}
    \cup {Body(NoCertificate, TRUE, q, "u1") : q \in Batches(FaultPool, MaxBatch)}

InitFault ==
    /\ users \in {("u1" :> [id |-> "u1", balance |-> 0, public_key |-> Pending]),
                  ("u1" :> [id |-> "u1", balance |-> 0, public_key |-> Pending])
                    @@ ("u2" :> [id |-> "u2", balance |-> 1, public_key |-> Pending])}
    /\ txs = EmptyTable
    /\ req = [s \in Slots |-> Idle]
    /\ issued = {IssueCert("u1", "d1", 2, 0, "n1")}

NextFault ==
    \/ /\ req[1].pc = "idle"
       /\ \E v \in Handlers, body \in FaultBodies : SyncStart(1, v, body)
    \/ SyncCheck(1)
    \/ SyncCheckFails(1)
    \/ SyncInsert(1)
    \/ SyncInsertFails(1)
    \/ SyncFetchReceiver(1)
    \/ SyncFetchReceiverFails(1)
    \/ SyncCredit(1)
    \/ SyncCreditFails(1)
    \/ SyncRefundFetch(1)
    \/ SyncRefundUpdate(1)
    \/ SyncFinal(1)
    \/ SyncResubmit(1)

SpecFault == InitFault /\ [][NextFault]_vars

(***************************************************************************)
(* SpecConc: two sync requests served concurrently, their steps            *)
(* interleaved in every order.  It starts after u1 was funded with 2 and   *)
(* was issued a certificate for 2; u2 is unknown or has a balance of 1.    *)
(***************************************************************************)
UserRow(id, balance) == [id |-> id, balance |-> balance, public_key |-> Pending]

InitConc ==
    /\ users \in {("u1" :> UserRow("u1", 0)),
                  ("u1" :> UserRow("u1", 0)) @@ ("u2" :> UserRow("u2", 1))}
    /\ txs = EmptyTable
    /\ req = [s \in Slots |-> Idle]
    /\ issued = {IssueCert("u1", "d1", 2, 0, "n1")}

ConcPool == {Tx(id, "", "d1", "u2", "", 1, "sg") : id \in TxIds}

ConcBodies ==
    {Body(c, TRUE, q, "") : c \in issued, q \in Batches(ConcPool, 1)}
    \cup {Body(NoCertificate, TRUE, q, "u1") : q \in Batches(ConcPool, 1)}

NextConc ==
    \E s \in Slots :
        \/ /\ req[s].pc = "idle"
           /\ \E v \in Handlers, body \in ConcBodies : SyncStart(s, v, body)
        \/ SyncCheck(s)
        \/ SyncInsert(s)
        \/ SyncFetchReceiver(s)
        \/ SyncCredit(s)
        \/ SyncRefundFetch(s)
        \/ SyncRefundUpdate(s)
        \/ SyncFinal(s)

SpecConc == InitConc /\ [][NextConc]_vars

(***************************************************************************)
(* SpecMix: two requests that change the balance of u1 (a top-up, a        *)
(* certificate issuance, a sync that credits u1) served concurrently,      *)
(* their steps interleaved in every order.  u1 starts with a balance of 2. *)
(***************************************************************************)
InitMix ==
    /\ users = ("u1" :> [id |-> "u1", balance |-> 2, public_key |-> Pending])
    /\ txs = EmptyTable
    /\ req = [s \in Slots |-> Idle]
    /\ issued = {}

MixPool == {Tx(id, "", "d2", "u1", "", 1, "sg") : id \in TxIds}

MixBodies == {Body(NoCertificate, TRUE, <<tx>>, "u2") : tx \in MixPool}

NextMix ==
    \E s \in Slots :
        \/ /\ req[s].pc = "idle"
           /\ \E v \in Handlers, body \in MixBodies : SyncStart(s, v, body)
        \/ SyncCheck(s)
        \/ SyncInsert(s)
        \/ SyncFetchReceiver(s)
        \/ SyncCredit(s)
        \/ SyncFinal(s)
        \/ /\ req[s].pc = "idle"
           /\ \E a \in Amounts : FundStart(s, "u1", TRUE, a)
        \/ FundFetch(s)
        \/ FundUpdate(s)
        \/ /\ req[s].pc = "idle"
           /\ \E a \in Amounts : CertStart(s, "u1", "d1", TRUE, a)
        \/ CertFetch(s)
        \/ CertUpdate(s)

SpecMix == InitMix /\ [][NextMix]_vars

(***************************************************************************)
(* SpecValue: the requests are served one at a time, from the empty store, *)
(* and no request is a top-up: nothing is ever funded.  The transactions   *)
(* name u1 or u2 as receiver and carry positive amounts.                   *)
(***************************************************************************)
ValuePool ==
    {Tx(id, "", "d1", ru, "", a, "sg") : id \in TxIds, ru \in UserIds, a \in Amounts}

ValueBodies ==
    {Body(c, TRUE, q, "") : c \in issued, q \in Batches(ValuePool, 1)}
    \cup {Body(NoCertificate, TRUE, q, "u1") : q \in Batches(ValuePool, 1)}

NextValue ==
    \/ /\ req[1].pc = "idle"
       /\ \E v \in Handlers, body \in ValueBodies :
            AdmitSync(v, body) /\ SyncStart(1, v, body)
    \/ SyncCheck(1)
    \/ SyncInsert(1)
    \/ SyncFetchReceiver(1)
    \/ SyncCredit(1)
    \/ SyncRefundFetch(1)
    \/ SyncRefundUpdate(1)
    \/ SyncFinal(1)
    \/ /\ req[1].pc = "idle"
       /\ \E u \in UserIds : BalanceStart(1, u)
    \/ BalanceFetch(1)
    \/ BalanceInsert(1)
    \/ /\ req[1].pc = "idle"
       /\ \E u \in {"u1"}, d \in {"d1"}, a \in Amounts :
            AdmitCert /\ CertStart(1, u, d, TRUE, a)
    \/ CertFetch(1)
    \/ CertUpdate(1)
    \/ Finish(1)
    \/ \E c \in issued : Discard(c)

SpecValue == Init /\ [][NextValue]_vars

TypeOK ==
    /\ \A u \in DOMAIN users : users[u].balance \in 0..MaxBalance
    /\ Cardinality(issued) <= MaxIssued

(***************************************************************************)
(* Properties.                                                             *)
(***************************************************************************)
SyncDone(s) == req[s].kind = "sync" /\ req[s].pc = "done"
Listed(q) == {q[k] : k \in 1..Len(q)}
SyncOk(s) == SyncDone(s) /\ req[s].status = 200
HasCert(r) == r.certificate # NoCertificate
BatchSum(q) == SumSeq([k \in 1..Len(q) |-> q[k].amount])
BalanceIn(table, u) == IF u \in DOMAIN table THEN table[u].balance ELSE 0

RECURSIVE SumCredits(_, _)
SumCredits(ids, u) ==
    IF ids = {} THEN 0
    ELSE LET id == CHOOSE x \in ids : TRUE
         IN (IF txs[id].receiver_id = u THEN txs[id].amount ELSE 0)
            + SumCredits(ids \ {id}, u)

\* C1: a batch submitted a second time, right after its first submission
\* succeeded, is answered with the same processed list and leaves every
\* balance as the first submission left it.
IdempotentReplay ==
    \A s \in Slots :
        (SyncOk(s) /\ req[s].first.retry) =>
            /\ req[s].results = req[s].first.processed
            /\ users = req[s].first.users
            /\ \A k \in 1..Len(req[s].transactions) :
                 req[s].transactions[k].transaction_id \in DOMAIN req[s].txs0
                   => req[s].transactions[k].transaction_id \in Listed(req[s].results)

\* the same, of the change handler alone
IdempotentReplayChange ==
    \A s \in Slots :
        (SyncOk(s) /\ req[s].first.retry /\ req[s].variant = "change") =>
            /\ req[s].results = req[s].first.processed
            /\ users = req[s].first.users
            /\ \A k \in 1..Len(req[s].transactions) :
                 req[s].transactions[k].transaction_id \in DOMAIN req[s].txs0
                   => req[s].transactions[k].transaction_id \in Listed(req[s].results)

IdempotentReplayChangeWitness ==
    \E s \in Slots :
        /\ SyncOk(s) /\ req[s].first.retry /\ req[s].variant = "change"
        /\ \E k \in 1..Len(req[s].transactions) :
             req[s].transactions[k].transaction_id \in DOMAIN txs

\* C4: a successful sync with a certificate of which less than the balance
\* was spent answers with a new certificate for the same user and device,
\* whose balance is the remainder and which verifies.
ChangeIssuance ==
    \A s \in Slots :
        LET r == req[s]
            c == r.newCertificate
        IN (SyncOk(s) /\ HasCert(r)
              /\ r.totalSpent < ToNumber(r.certificate.tip_wallet_balance)) =>
             /\ c # NoCertificate
             /\ c.user_id = r.certificate.user_id
             /\ c.device_id = r.certificate.device_id
             /\ c.tip_wallet_balance =
                  Num(ToNumber(r.certificate.tip_wallet_balance) - r.totalSpent)
             /\ verify(join(c), c.signature, getPublicKey) = "true"

\* the same, of the change handler alone
ChangeIssuanceChange ==
    \A s \in Slots :
        LET r == req[s]
            c == r.newCertificate
        IN (SyncOk(s) /\ HasCert(r) /\ r.variant = "change"
              /\ r.totalSpent < ToNumber(r.certificate.tip_wallet_balance)) =>
             /\ c # NoCertificate
             /\ c.user_id = r.certificate.user_id
             /\ c.device_id = r.certificate.device_id
             /\ c.tip_wallet_balance =
                  Num(ToNumber(r.certificate.tip_wallet_balance) - r.totalSpent)
             /\ verify(join(c), c.signature, getPublicKey) = "true"

\* C5: a successful sync of the change handler with a certificate for X and
\* a batch whose amounts sum to exactly X answers with no new certificate
\* and total_spent = X.
FullSpend ==
    \A s \in Slots :
        LET r == req[s]
        IN (SyncOk(s) /\ r.variant = "change" /\ HasCert(r)
              /\ BatchSum(r.transactions) = ToNumber(r.certificate.tip_wallet_balance)) =>
             /\ r.newCertificate = NoCertificate
             /\ r.totalSpent = ToNumber(r.certificate.tip_wallet_balance)

FullSpendWitness ==
    \E s \in Slots :
        LET r == req[s]
        IN /\ SyncOk(s) /\ r.variant = "change" /\ HasCert(r)
           /\ Len(r.transactions) = 2
           /\ r.stored # {}
           /\ BatchSum(r.transactions) = ToNumber(r.certificate.tip_wallet_balance)

\* C6: a certificate the service issued passes the verification of sync, and
\* one made of it by changing a single field or the signature is answered
\* with 401 Invalid certificate.
CertificateRoundTrip ==
    \A s \in Slots :
        LET r == req[s]
        IN (r.kind = "sync" /\ r.pc # "idle" /\ r.txIsArray /\ HasCert(r)) =>
             /\ r.certificate \in issued =>
                  ~(r.pc = "done" /\ r.status \in {401, 500} /\ r.i = 0)
             /\ r.certificate \in AllTampered =>
                  (r.pc = "done" /\ r.status = 401)

\* C7: a sync answered with 400 or 401 has stored no row and has left both
\* tables as they were when it arrived.
RejectedSyncLeavesStore ==
    \A s \in Slots :
        (SyncDone(s) /\ req[s].status \in {400, 401}) =>
            /\ users = req[s].users0
            /\ txs = req[s].txs0
            /\ req[s].stored = {}

RejectedSyncLeavesStoreWitness ==
    \E s \in Slots :
        /\ SyncDone(s) /\ req[s].status = 401
        /\ Len(req[s].transactions) > 0
        /\ req[s].transactions[1].sender_signature # ""
        /\ req[s].transactions[1].transaction_id \notin DOMAIN txs

\* C8: certificate issuance answers 404 when the user has no row and 400
\* when the balance is below the amount, changing no balance and sending no
\* certificate; otherwise it lowers the user's balance by exactly the amount
\* and sends a certificate with tip_wallet_balance = amount.
CertificateIssuance ==
    \A s \in Slots :
        LET r == req[s]
            u == r.user_id
        IN (r.kind = "certificate" /\ r.pc = "done" /\ r.error # "Missing parameters") =>
             IF u \notin DOMAIN r.users0
             THEN r.status = 404 /\ users = r.users0 /\ r.newCertificate = NoCertificate
             ELSE IF r.users0[u].balance < r.amount
             THEN r.status = 400 /\ users = r.users0 /\ r.newCertificate = NoCertificate
             ELSE /\ r.status = 200
                  /\ users = [r.users0 EXCEPT ![u].balance = @ - r.amount]
                  /\ r.newCertificate.user_id = u
                  /\ r.newCertificate.tip_wallet_balance = Num(r.amount)

CertificateIssuanceWitness ==
    \E s \in Slots :
        LET r == req[s]
        IN /\ r.kind = "certificate" /\ r.pc = "done" /\ r.status = 200
           /\ r.users0[r.user_id].balance = r.amount
           /\ r.amount > 0

\* C9: a successful sync with a certificate of which less than the balance
\* was spent changes no balance except by crediting the receivers of the
\* transactions it stored; the remainder is not added to the online balance
\* of certificate.user_id.
ChangeKeepsOnlineBalance ==
    \A s \in Slots :
        LET r == req[s]
        IN (SyncOk(s) /\ HasCert(r)
              /\ r.totalSpent < ToNumber(r.certificate.tip_wallet_balance)) =>
             \A u \in DOMAIN users :
                users[u].balance = BalanceIn(r.users0, u) + SumCredits(r.stored, u)

\* the same, of the change handler alone
ChangeKeepsOnlineBalanceChange ==
    \A s \in Slots :
        LET r == req[s]
        IN (SyncOk(s) /\ HasCert(r) /\ r.variant = "change"
              /\ r.totalSpent < ToNumber(r.certificate.tip_wallet_balance)) =>
             \A u \in DOMAIN users :
                users[u].balance = BalanceIn(r.users0, u) + SumCredits(r.stored, u)

OneTx(s) == Len(req[s].transactions) = 1
TheTx(s) == req[s].transactions[1]

\* C2: two sync requests served concurrently, each with one transaction of
\* its own that credits the same unknown receiver with the same amount a,
\* leave the receiver with a balance of exactly 2 * a.
AtomicConcurrentCredit ==
    (/\ \A s \in Slots : SyncOk(s) /\ OneTx(s)
     /\ TheTx(1).transaction_id # TheTx(2).transaction_id
     /\ ReceiverId(TheTx(1)) = ReceiverId(TheTx(2))
     /\ TheTx(1).amount = TheTx(2).amount
     /\ \A s \in Slots : /\ ReceiverId(TheTx(1)) \notin DOMAIN req[s].users0
                         /\ req[s].txs0 = EmptyTable)
    => BalanceIn(users, ReceiverId(TheTx(1))) = 2 * TheTx(1).amount

\* C3: of the requests that replay one transaction id, at most one stores
\* the row; and when two requests that each carry that one transaction have
\* both arrived before the row was stored, the receiver's balance has grown,
\* once both are answered, by the amount exactly once.
ReplayedOnce ==
    /\ \A id \in TxIds : Cardinality({s \in Slots : id \in req[s].stored}) <= 1
    /\ (/\ \A s \in Slots : SyncDone(s) /\ OneTx(s) /\ req[s].status \in {200, 500}
        /\ TheTx(1) = TheTx(2)
        /\ \A s \in Slots : TheTx(1).transaction_id \notin DOMAIN req[s].txs0)
       => /\ Cardinality({s \in Slots : req[s].stored # {}}) = 1
          /\ BalanceIn(users, ReceiverId(TheTx(1)))
               = BalanceIn(req[1].users0, ReceiverId(TheTx(1))) + TheTx(1).amount

ReplayedOnceWitness ==
    /\ \A s \in Slots : SyncDone(s) /\ OneTx(s)
    /\ TheTx(1) = TheTx(2)
    /\ \A s \in Slots : TheTx(1).transaction_id \notin DOMAIN req[s].txs0
    /\ req[1].status = 500 /\ req[2].status = 200

\* C10: the sender stored with a transaction is its sender_user_id when it
\* has one; else certificate.user_id when a certificate is presented whose
\* device_id is the transaction's sender_device_id; else the raw
\* sender_device_id.  When the device ids differ the holder's user id is
\* stored only if the transaction itself declares it.
SenderAttribution ==
    \A s \in Slots : \A id \in req[s].stored :
        LET c == req[s].certificate
            row == txs[id]
            tx == row.payload
            match == HasCert(req[s]) /\ c.device_id = tx.sender_device_id
        IN /\ tx.sender_user_id # "" => row.sender_id = tx.sender_user_id
           /\ (tx.sender_user_id = "" /\ match) => row.sender_id = c.user_id
           /\ (tx.sender_user_id = "" /\ ~match) => row.sender_id = tx.sender_device_id
           /\ (HasCert(req[s]) /\ ~match /\ row.sender_id = c.user_id) =>
                c.user_id \in {tx.sender_user_id, tx.sender_device_id}

SenderAttributionWitness ==
    \E s \in Slots : \E id \in req[s].stored :
        LET c == req[s].certificate
            tx == txs[id].payload
        IN /\ HasCert(req[s])
           /\ tx.sender_user_id = ""
           /\ c.device_id # tx.sender_device_id
           /\ txs[id].sender_id = tx.sender_device_id

\* C10 as stated: ... the certificate holder's user id is never stored as
\* sender when the device ids differ.
SenderAttributionAsStated ==
    \A s \in Slots : \A id \in req[s].stored :
        LET c == req[s].certificate
            row == txs[id]
            tx == row.payload
            match == HasCert(req[s]) /\ c.device_id = tx.sender_device_id
        IN /\ tx.sender_user_id # "" => row.sender_id = tx.sender_user_id
           /\ (tx.sender_user_id = "" /\ match) => row.sender_id = c.user_id
           /\ (tx.sender_user_id = "" /\ ~match) => row.sender_id = tx.sender_device_id
           /\ (HasCert(req[s]) /\ ~match) => row.sender_id # c.user_id

\* C11: after a successful sync, the receiver of every transaction it stored
\* has a row; a receiver that had none has the credited amount as balance
\* and the pending-registration marker as public key, and one that had a row
\* has its balance grown by exactly the amount and its public key unchanged.
ReceiverProvisioning ==
    \A s \in Slots : \A id \in req[s].stored :
        LET r == req[s]
            u == txs[id].receiver_id
        IN (SyncOk(s) /\ u # "unknown") =>
             /\ u \in DOMAIN users
             /\ users[u].balance = BalanceIn(r.users0, u) + SumCredits(r.stored, u)
             /\ users[u].public_key =
                  IF u \in DOMAIN r.users0 THEN r.users0[u].public_key ELSE Pending

ReceiverProvisioningWitness ==
    \E s \in Slots : \E id \in req[s].stored :
        LET r == req[s]
            u == txs[id].receiver_id
        IN /\ SyncOk(s) /\ r.variant = "change"
           /\ u \in DOMAIN r.users0
           /\ r.users0[u].public_key = "pk"
           /\ r.users0[u].balance > 0

\* C12: a balance query of a user without a row creates the row with
\* balance 0 and the pending-registration marker and returns 0; of a user
\* with a row it returns the stored balance and changes no row.
GetBalance ==
    \A s \in Slots :
        LET r == req[s]
            u == r.user_id
        IN (r.kind = "balance" /\ r.pc = "done") =>
             /\ r.status = 200
             /\ IF u \in DOMAIN r.users0
                THEN users = r.users0 /\ r.balance = r.users0[u].balance
                ELSE /\ users = r.users0 @@ (u :> [id |-> u, balance |-> 0,
                                                   public_key |-> Pending])
                     /\ r.balance = 0

GetBalanceWitness ==
    \E s \in Slots :
        /\ req[s].kind = "balance" /\ req[s].pc = "done"
        /\ req[s].user_id \notin DOMAIN req[s].users0
        /\ req[s].users0 # EmptyTable

\* C13: the amount that the requests presenting one certificate have
\* credited to receivers, all together, is at most the certificate's
\* tip_wallet_balance.
BoundedSpend ==
    \A s \in Slots :
        LET r == req[s]
        IN (SyncOk(s) /\ r.variant = "change" /\ HasCert(r)) =>
             r.prior + Credited(r.stored) <= ToNumber(r.certificate.tip_wallet_balance)

LoopOperations ==
    {"check", "insert", "fetchReceiver", "updateReceiver", "insertReceiver"}

\* C14: a sync during which a store operation of the replay loop failed is
\* answered with 500, never with success.
FailureSurfaced ==
    \A s \in Slots :
        (SyncDone(s) /\ req[s].faults \cap LoopOperations # {}) =>
            req[s].status = 500

\* what a request that was answered has added to the balance of user u, as
\* its response and the rows it stored tell
Effect(s, u) ==
    LET r == req[s]
    IN IF r.pc # "done" \/ r.status # 200 THEN 0
       ELSE IF r.kind = "fund" /\ r.user_id = u THEN r.amount
       ELSE IF r.kind = "certificate" /\ r.user_id = u THEN 0 - r.amount
       ELSE IF r.kind = "sync" THEN SumCredits(r.stored, u)
       ELSE 0

\* C15: once two concurrent requests on the existing user u1 are answered,
\* the balance of u1 is its initial balance (2) plus what was credited and
\* funded minus what was issued.
AtomicBalanceMutation ==
    (\A s \in Slots : req[s].pc = "done") =>
        users["u1"].balance = 2 + Effect(1, "u1") + Effect(2, "u1")

\* the balance of the certificate a request was answered with
IssuedTo(s) ==
    IF req[s].kind = "certificate" /\ req[s].pc = "done" /\ req[s].status = 200
    THEN ToNumber(req[s].newCertificate.tip_wallet_balance)
    ELSE 0

\* C19: once two concurrent issuance requests for u1 are answered, the
\* balances of the certificates issued sum to the amount by which the
\* balance of u1 went down, and so to no more than the 2 that u1 had.
NoOverIssue ==
    (\A s \in Slots : req[s].kind = "certificate" /\ req[s].pc = "done") =>
        /\ IssuedTo(1) + IssuedTo(2) = 2 - users["u1"].balance
        /\ IssuedTo(1) + IssuedTo(2) <= 2

\* the user a refund handler returns the unspent amount to
RefundTarget(r) ==
    IF r.variant = "refund" /\ HasCert(r) THEN r.certificate.user_id ELSE ""

\* C16: a transaction without sender_signature is never stored and credits
\* nobody: no row carries an empty signature, the balances a sync changes
\* are those of the receivers of the rows it stored, by their amounts; and
\* the sync goes on with the rest of the batch, every signed transaction of
\* which is stored when the sync is answered.
MissingSignatureSkip ==
    /\ \A id \in DOMAIN txs : txs[id].signature # ""
    /\ \A s \in Slots :
         LET r == req[s]
             q == r.transactions
         IN (SyncDone(s) /\ r.i > 0) =>
              /\ r.status = 200
              /\ \A k \in 1..Len(q) :
                   q[k].sender_signature # "" => q[k].transaction_id \in DOMAIN txs
              /\ \A u \in DOMAIN users \ {RefundTarget(r)} :
                   users[u].balance = BalanceIn(r.users0, u) + SumCredits(r.stored, u)

MissingSignatureSkipWitness ==
    \E s \in Slots :
        LET r == req[s]
            q == r.transactions
        IN /\ SyncOk(s) /\ Len(q) = 2
           /\ q[1].sender_signature = ""
           /\ q[1].transaction_id \notin DOMAIN txs
           /\ q[2].sender_signature # ""
           /\ r.stored = {q[2].transaction_id}

\* the amounts of the transactions of the batch whose id was stored when
\* the request arrived
AlreadyStoredSum(r) ==
    SumSeq([k \in 1..Len(r.transactions) |->
              IF r.transactions[k].transaction_id \in DOMAIN r.txs0
              THEN r.transactions[k].amount ELSE 0])

\* C17: the total_spent of a successful sync counts the transactions of the
\* batch that an earlier sync stored, and no more than the batch; a batch
\* submitted again reports the total_spent and the change of its first
\* submission.
TotalSpentAccounting ==
    \A s \in Slots :
        LET r == req[s]
        IN SyncOk(s) =>
             /\ AlreadyStoredSum(r) <= r.totalSpent
             /\ r.totalSpent <= BatchSum(r.transactions)
             /\ r.first.retry =>
                  /\ r.totalSpent = r.first.total_spent
                  /\ ToNumber(r.newCertificate.tip_wallet_balance) = r.first.change

\* the same, of the change handler alone
TotalSpentAccountingChange ==
    \A s \in Slots :
        LET r == req[s]
        IN (SyncOk(s) /\ r.variant = "change") =>
             /\ AlreadyStoredSum(r) <= r.totalSpent
             /\ r.totalSpent <= BatchSum(r.transactions)
             /\ r.first.retry =>
                  /\ r.totalSpent = r.first.total_spent
                  /\ ToNumber(r.newCertificate.tip_wallet_balance) = r.first.change

\* C18: a successful sync answers with the balance stored for the syncing
\* user, who has a row once the sync is answered.
ResponseBalance ==
    \A s \in Slots :
        LET r == req[s]
            u == SyncingUserId(r)
        IN SyncOk(s) =>
             /\ u \in DOMAIN users
             /\ r.balance = BalanceIn(users, u)

\* the same, without the row
ResponseBalanceValue ==
    \A s \in Slots :
        SyncOk(s) => req[s].balance = BalanceIn(users, SyncingUserId(req[s]))

\* C20: a successful sync of the change handler with a certificate has
\* credited to receivers no more than the certificate's tip_wallet_balance.
SingleSyncOverspend ==
    \A s \in Slots :
        LET r == req[s]
        IN (SyncOk(s) /\ r.variant = "change" /\ HasCert(r)) =>
             Credited(r.stored) <= ToNumber(r.certificate.tip_wallet_balance)

\* C21: the balances of all users sum to no more than the amount added by
\* top-ups; where no request is a top-up, that amount is 0.
NoValueCreation == TotalBalance(users) <= 0

\* the rows a request stored have each added their amount to the balance
\* of their receiver
RowsCredited(r) ==
    \A id \in r.stored :
        LET u == txs[id].receiver_id
        IN u # "unknown" =>
             BalanceIn(users, u) = BalanceIn(r.users0, u) + SumCredits(r.stored, u)

\* C22: when no request is in flight, after a sync answered with 500 as
\* well, every row that the sync stored has added its amount to the balance
\* of its receiver exactly once.
LedgerAtRest ==
    (\A s \in Slots : ~InFlight(s)) =>
        \A s \in Slots : req[s].kind = "sync" => RowsCredited(req[s])

\* the same, once the batch was submitted again and answered with success,
\* no store operation having failed this time
LedgerAfterRetry ==
    (\A s \in Slots : ~InFlight(s)) =>
        \A s \in Slots :
            (SyncOk(s) /\ req[s].first.retry /\ req[s].faults = {})
                => RowsCredited(req[s])

====
